---- MODULE Spec2Model ----
(***************************************************************************)
(* State-transition core of the Tetris game: the State/Cube data model,    *)
(* the six Action classes (GenerateBlock, Tick, Move, Restart, Rotate,     *)
(* Drop) and reduceState of state.ts, with the grid utilities of util.ts   *)
(* and the constants of types.ts.                                          *)
(*                                                                         *)
(* The program fixes a board of GRID_HEIGHT = 20 rows by GRID_WIDTH = 10   *)
(* columns.  Every function of the source is written in terms of           *)
(* GRID_RANGE.NUM_OF_ROWS / NUM_OF_COLUMNS / COL_MIDPOINT, and so is every *)
(* operator below; the board that is explored is Rows x 2*HalfCols so that *)
(* locks, line clears, game end and restart are all reached.  The width is *)
(* kept even because COL_MIDPOINT = width / 2 is an array index.  The      *)
(* height of the board is fixed by the initial predicate of a              *)
(* specification and never changes: Spec explores a board of Rows rows,    *)
(* SpecTall one of Rows + 1 rows, SpecMerge one of Rows + 2 rows.          *)
(*                                                                         *)
(* An apply that raises a JavaScript TypeError (grid[r][c] with r outside  *)
(* the grid) is modelled by the Throws predicates: the accumulator keeps   *)
(* its value, thrown becomes TRUE and no further action is folded.         *)
(*                                                                         *)
(* keysOn tells whether the keyboard streams may still emit; it is TRUE    *)
(* throughout Spec and is turned off, for good, in SpecUnattended only.    *)
(***************************************************************************)
EXTENDS Integers, Sequences, FiniteSets, TLC

VARIABLES
    state,       \* the accumulator of scan(reduceState, initialState)
    thrown,      \* TRUE once an apply raised a TypeError (the stream has errored)
    gridHeight,  \* Constants.GRID_HEIGHT of the board explored, never changed
    keysOn       \* TRUE while key presses (Move, Rotate, Drop, Restart) may arrive

vars == <<state, thrown, gridHeight, keysOn>>

(***************************************************************************)
(* Bounds of the exploration: the board is Rows x (2 * HalfCols) cells, and *)
(* no block is spawned once objCount would pass MaxObjCount.               *)
(***************************************************************************)
Rows == 4
HalfCols == 3
MaxObjCount == 24
MaxAttendedCount == 20

(***************************************************************************)
(* types.ts: Viewport, Constants, Cube_Dimensions, GRID_RANGE, Tetrimino.  *)
(* The program has GRID_WIDTH: 10, GRID_HEIGHT: 20 and a canvas of 200 x   *)
(* 400 pixels, which makes a cube 20 x 20 pixels; the explored board keeps *)
(* the cube at 20 pixels and scales the canvas with the grid, so that the  *)
(* derived values below are computed by the program's own formulas.        *)
(***************************************************************************)
GRID_WIDTH == 2 * HalfCols
GRID_HEIGHT == gridHeight
CubePixels == 20
CANVAS_WIDTH == CubePixels * GRID_WIDTH
CANVAS_HEIGHT == CubePixels * GRID_HEIGHT
INITIAL_SPEED == 100
MAX_SPEED == 10
Cube_WIDTH == CANVAS_WIDTH \div GRID_WIDTH
Cube_HEIGHT == CANVAS_HEIGHT \div GRID_HEIGHT
NUM_OF_ROWS == CANVAS_HEIGHT \div Cube_HEIGHT
COL_MIDPOINT == (CANVAS_WIDTH \div Cube_WIDTH) \div 2
NUM_OF_COLUMNS == CANVAS_WIDTH \div Cube_WIDTH
TETRIMINO_TYPES == <<"I", "J", "L", "O", "S", "T", "Z">>
DEFAULT_CHOICE == 3
TETRIMINO_SIZE == 4

RowIdx == 0 .. (NUM_OF_ROWS - 1)
ColIdx == 0 .. (NUM_OF_COLUMNS - 1)

\* An empty grid cell (JavaScript null) and an out-of-range column read
\* (JavaScript undefined, which is !== null).
null == <<>>
undefined == <<"undefined">>

(***************************************************************************)
(* Sequence helpers standing for Array.map / filter / find / flatMap.      *)
(***************************************************************************)
RECURSIVE KeepIdx(_, _, _)
\* The elements of list whose index is in keep, in order, from index i on.
KeepIdx(list, keep, i) ==
    IF i > Len(list) THEN <<>>
    ELSE IF i \in keep THEN <<list[i]>> \o KeepIdx(list, keep, i + 1)
    ELSE KeepIdx(list, keep, i + 1)

SetMin(S) == CHOOSE m \in S : \A n \in S : m <= n

\* list.includes(v)
includes(list, v) == \E i \in 1 .. Len(list) : list[i] = v

\* util.ts removeDuplicates: keep the first occurrence of every item
removeDuplicates(list) ==
    KeepIdx(list, {i \in 1 .. Len(list) : \A j \in 1 .. (i - 1) : list[j] # list[i]}, 1)

\* max returning its second argument
maxTakesSecond(first, second) == second

\* util.ts max
max(first, second) == IF first > second THEN first ELSE second

(***************************************************************************)
(* util.ts: coordinates and predicates over one cube.                      *)
(***************************************************************************)
\* Math.floor(col / NUM_OF_COLUMNS * CANVAS_WIDTH); the floating-point
\* product is exact for every index the program computes.
calculateXcoord(col) == (col * CANVAS_WIDTH) \div NUM_OF_COLUMNS
calculateYcoord(row) == (row * CANVAS_HEIGHT) \div NUM_OF_ROWS

\* grid[r][c] for r inside the grid: a column outside the row array reads undefined
Cell(grid, r, c) == IF c \in ColIdx THEN grid[r][c] ELSE undefined

\* grid[r] is undefined for r outside the grid, and indexing it raises a TypeError
RowThrows(r) == r \notin RowIdx

checkCubeRowExceedsBoundaries(cube) ==
    cube.grid_row >= NUM_OF_ROWS - 1 \/ cube.grid_row < 0

\* checkCubeColExceedsBoundaries with the comparison of the row check
checkCubeColExceedsBoundariesInclusive(cube) ==
    cube.grid_col < 0 \/ cube.grid_col >= NUM_OF_COLUMNS - 1

checkCubeColExceedsBoundaries(cube) ==
    cube.grid_col < 0 \/ cube.grid_col > NUM_OF_COLUMNS - 1

\* cantMoveLeft looking at the edge only
cantMoveLeftEdgeOnly(grid, cube) == cube.grid_col <= 0

cantMoveLeft(grid, cube) ==
    cube.grid_col <= 0 \/ Cell(grid, cube.grid_row, cube.grid_col - 1) # null

cantMoveRight(grid, cube) ==
    cube.grid_col >= NUM_OF_COLUMNS - 1 \/ Cell(grid, cube.grid_row, cube.grid_col + 1) # null

cantMoveDown(grid, cube) == Cell(grid, cube.grid_row + 1, cube.grid_col) # null

checkCurrentCell(grid, cube) == Cell(grid, cube.grid_row, cube.grid_col) # null

\* the cubes of a block, the arguments a condition is tried on
Cubes(block) == {block[i] : i \in 1 .. Len(block)}

\* checkBlockCollision(conds)(block): filter visits every cube of the block;
\* cond maps each cube of the block to the outcome of the conditions on it
checkBlockCollision(cond, block) == \E i \in 1 .. Len(block) : cond[block[i]]

generate2DArray(generateCell) ==
    [r \in RowIdx |-> [c \in ColIdx |-> generateCell[r, c]]]

NullCell == [r \in RowIdx, c \in ColIdx |-> null]

isColumnFilled(grid) == \E columnIndex \in ColIdx : grid[0][columnIndex] # null

\* every cell of the grid in row-major order (flatMap over the rows)
GridCells(grid) ==
    [i \in 1 .. (NUM_OF_ROWS * NUM_OF_COLUMNS) |->
        grid[(i - 1) \div NUM_OF_COLUMNS][(i - 1) % NUM_OF_COLUMNS]]

\* Array.find: the first element at the position, or null
FindAt(cubes, rowIndex, colIndex) ==
    LET hits == {i \in 1 .. Len(cubes) :
                    cubes[i].grid_row = rowIndex /\ cubes[i].grid_col = colIndex}
    IN  IF hits = {} THEN null ELSE cubes[SetMin(hits)]

\* setBlockInArray looking the block's cube up by column alone
setBlockInArrayByColumn(gridArray, activeBlock) ==
    [rowIndex \in RowIdx |-> [colIndex \in ColIdx |->
        LET hits == {i \in 1 .. Len(activeBlock) : activeBlock[i].grid_col = colIndex}
        IN  IF hits # {} THEN activeBlock[SetMin(hits)]
            ELSE gridArray[rowIndex][colIndex]]]

setBlockInArray(gridArray, activeBlock) ==
    [rowIndex \in RowIdx |-> [colIndex \in ColIdx |->
        LET cubeInActiveBlock == FindAt(activeBlock, rowIndex, colIndex)
        IN  IF cubeInActiveBlock # null THEN cubeInActiveBlock
            ELSE gridArray[rowIndex][colIndex]]]

getRecentlyPlacedRows(activeBlock) ==
    removeDuplicates([i \in 1 .. Len(activeBlock) |-> activeBlock[i].grid_row])

getDeletingRows(gridArray, rowIndexes) ==
    KeepIdx(rowIndexes,
            {i \in 1 .. Len(rowIndexes) :
                \A column \in ColIdx : gridArray[rowIndexes[i]][column] # null}, 1)

getRemovedCubes(grid, deletingRowIndexes) ==
    LET cells == GridCells(grid)
    IN  KeepIdx(cells,
                {i \in 1 .. Len(cells) :
                    cells[i] # null /\ includes(deletingRowIndexes, cells[i].grid_row)}, 1)

(***************************************************************************)
(* state.ts: the block factory.                                            *)
(***************************************************************************)
\* center of the O layout: {row: Infinity, col: Infinity}, an index no layout has
Infinity == NUM_OF_ROWS + NUM_OF_COLUMNS

tetriminoLayouts(tetriminoType) ==
    CASE tetriminoType = "I" ->
            [layout |-> << <<1, 1, 1, 1>> >>, center |-> [row |-> 0, col |-> 1]]
      [] tetriminoType = "J" ->
            [layout |-> << <<1, 0, 0>>, <<1, 1, 1>> >>, center |-> [row |-> 1, col |-> 1]]
      [] tetriminoType = "L" ->
            [layout |-> << <<0, 0, 1>>, <<1, 1, 1>> >>, center |-> [row |-> 1, col |-> 1]]
      [] tetriminoType = "O" ->
            [layout |-> << <<1, 1>>, <<1, 1>> >>,
             center |-> [row |-> Infinity, col |-> Infinity]]
      [] tetriminoType = "S" ->
            [layout |-> << <<0, 1, 1>>, <<1, 1, 0>> >>, center |-> [row |-> 1, col |-> 1]]
      [] tetriminoType = "T" ->
            [layout |-> << <<0, 1, 0>>, <<1, 1, 1>> >>, center |-> [row |-> 1, col |-> 1]]
      [] tetriminoType = "Z" ->
            [layout |-> << <<1, 1, 0>>, <<0, 1, 1>> >>, center |-> [row |-> 1, col |-> 1]]

\* The id string `${cubeCount}-${rowIndex}-${colIndex}-${scale(hash(rowIndex + colIndex))}`:
\* its last part is a function of the two before it, so the string is determined
\* by, and determines, the triple kept here.  width, height and style are the
\* same constant strings in every cube and are left out.
createCube(rowIndex, colIndex, cubeCount, isCenter) ==
    [id       |-> <<cubeCount, rowIndex, colIndex>>,
     x        |-> calculateXcoord(colIndex),
     y        |-> calculateYcoord(rowIndex),
     grid_row |-> rowIndex,
     grid_col |-> colIndex,
     center   |-> isCenter]

createBlock(tetriminoType, cubeCount) ==
    LET layout == tetriminoLayouts(tetriminoType).layout
        center == tetriminoLayouts(tetriminoType).center
        width  == Len(layout[1])
        \* flatMap over the layout rows, row-major; rowIndex and colIndex from 0
        cells  == [i \in 1 .. (Len(layout) * width) |->
                     LET rowIndex == (i - 1) \div width
                         colIndex == (i - 1) % width
                     IN  createCube(rowIndex, colIndex + COL_MIDPOINT - 1, cubeCount,
                                    rowIndex = center.row /\ colIndex = center.col)]
    IN  KeepIdx(cells,
                {i \in 1 .. Len(cells) :
                    layout[((i - 1) \div width) + 1][((i - 1) % width) + 1] = 1}, 1)

startingBlock == createBlock("O", 4)

initialState ==
    [gameEnd             |-> FALSE,
     grid                |-> generate2DArray(NullCell),
     score               |-> 0,
     highScore           |-> 0,
     level               |-> 0,
     activeBlock         |-> startingBlock,
     shapePreview        |-> "T",
     randomTetriminoType |-> "J",
     clearBlocks         |-> <<>>,
     objCount            |-> Len(startingBlock)]

(***************************************************************************)
(* state.ts: GenerateBlock.                                                *)
(***************************************************************************)
\* checkIndex taking index 0 for out of bounds
checkIndexPositive(tetriminoTypeIndex) ==
    tetriminoTypeIndex > 0 /\ tetriminoTypeIndex < Len(TETRIMINO_TYPES)

checkIndex(tetriminoTypeIndex) ==
    tetriminoTypeIndex >= 0 /\ tetriminoTypeIndex < Len(TETRIMINO_TYPES)

\* TETRIMINO_TYPES is indexed from 0 in the source
GenerateBlockApply(s, tetriminoTypeIndex) ==
    [s EXCEPT !.randomTetriminoType =
        IF checkIndex(tetriminoTypeIndex) THEN TETRIMINO_TYPES[tetriminoTypeIndex + 1]
        ELSE TETRIMINO_TYPES[DEFAULT_CHOICE + 1]]

(***************************************************************************)
(* state.ts: Tick.                                                         *)
(***************************************************************************)
moveCube(amount, cube) ==
    [cube EXCEPT !.grid_row = cube.grid_row + amount,
                 !.y = calculateYcoord(cube.grid_row + amount)]

moveBlock(amount, block) == [i \in 1 .. Len(block) |-> moveCube(amount, block[i])]

\* util.ts removeRowsAndShiftDown
removeRowsAndShiftDown(grid, deletingRowIndexes) ==
    LET minDeletingRowIndex ==
            SetMin({deletingRowIndexes[i] : i \in 1 .. Len(deletingRowIndexes)})
        cells == GridCells(grid)
        kept  == KeepIdx(cells,
                         {i \in 1 .. Len(cells) :
                             cells[i] # null
                             /\ ~includes(deletingRowIndexes, cells[i].grid_row)}, 1)
        leftOverCubes ==
            [i \in 1 .. Len(kept) |->
                IF kept[i].grid_row < minDeletingRowIndex
                THEN moveCube(Len(deletingRowIndexes), kept[i])
                ELSE kept[i]]
    IN  [rowIndex \in RowIdx |-> [colIndex \in ColIdx |->
            FindAt(leftOverCubes, rowIndex, colIndex)]]

\* the conditions of Tick.apply and Drop.apply on one cube; `some` stops at the
\* first condition that holds, so grid[row + 1] is read only for 0 <= row < rows - 1
collidesBelow(grid, cube) ==
    checkCubeRowExceedsBoundaries(cube) \/ cantMoveDown(grid, cube)

\* isCollision without cantMoveDown (only the floor stops a block)
isCollisionFloorOnly(s) ==
    checkBlockCollision([cube \in Cubes(s.activeBlock) |-> checkCubeRowExceedsBoundaries(cube)],
                        s.activeBlock)

isCollision(s) ==
    checkBlockCollision([cube \in Cubes(s.activeBlock) |-> collidesBelow(s.grid, cube)],
                        s.activeBlock)

\* handleBlockClear scoring one row however many rows are cleared
handleBlockClearOneRow(s, deletingRows) ==
    LET removedCubes == getRemovedCubes(s.grid, deletingRows)
        newScore     == s.score + NUM_OF_COLUMNS
    IN  [s EXCEPT !.shapePreview = s.randomTetriminoType,
                  !.grid = removeRowsAndShiftDown(s.grid, deletingRows),
                  !.score = newScore,
                  !.level = newScore \div NUM_OF_COLUMNS,
                  !.clearBlocks = s.clearBlocks \o removedCubes]

\* handleBlockClear raising the level by one at every clear
handleBlockClearLevelStep(s, deletingRows) ==
    LET removedCubes == getRemovedCubes(s.grid, deletingRows)
        newScore     == s.score + NUM_OF_COLUMNS * Len(deletingRows)
    IN  [s EXCEPT !.shapePreview = s.randomTetriminoType,
                  !.grid = removeRowsAndShiftDown(s.grid, deletingRows),
                  !.score = newScore,
                  !.level = s.level + 1,
                  !.clearBlocks = s.clearBlocks \o removedCubes]

\* handleBlockClear leaving the preview as it was
handleBlockClearKeepPreview(s, deletingRows) ==
    LET removedCubes == getRemovedCubes(s.grid, deletingRows)
        newScore     == s.score + NUM_OF_COLUMNS * Len(deletingRows)
    IN  [s EXCEPT !.grid = removeRowsAndShiftDown(s.grid, deletingRows),
                  !.score = newScore,
                  !.level = newScore \div NUM_OF_COLUMNS,
                  !.clearBlocks = s.clearBlocks \o removedCubes]

handleBlockClear(s, deletingRows) ==
    LET removedCubes == getRemovedCubes(s.grid, deletingRows)
        newScore     == s.score + NUM_OF_COLUMNS * Len(deletingRows)
    IN  [s EXCEPT !.shapePreview = s.randomTetriminoType,
                  !.grid = removeRowsAndShiftDown(s.grid, deletingRows),
                  !.score = newScore,
                  !.level = newScore \div NUM_OF_COLUMNS,
                  !.clearBlocks = s.clearBlocks \o removedCubes]

\* the candidate spawned with the same counter at every lock
spawnCandidateFixed(s) == createBlock(s.shapePreview, TETRIMINO_SIZE)

\* the candidate spawned at a lock
spawnCandidate(s) == createBlock(s.shapePreview, TETRIMINO_SIZE + s.objCount)

spawnOverlaps(updatedGrid, newActiveBlock) ==
    checkBlockCollision([cube \in Cubes(newActiveBlock) |-> checkCurrentCell(updatedGrid, cube)],
                        newActiveBlock)

\* handleCollisions replacing the active block also on a spawn overlap
handleCollisionsAlwaysSpawn(s) ==
    LET updatedGrid        == setBlockInArray(s.grid, s.activeBlock)
        newActiveBlock     == spawnCandidate(s)
        spawnOverlap       == spawnOverlaps(updatedGrid, newActiveBlock)
        recentlyPlacedRows == getRecentlyPlacedRows(s.activeBlock)
        deletingRows       == getDeletingRows(updatedGrid, recentlyPlacedRows)
    IN  IF Len(deletingRows) > 0
        THEN handleBlockClear(
                [s EXCEPT !.activeBlock = newActiveBlock,
                          !.grid = updatedGrid,
                          !.objCount = s.objCount + Len(newActiveBlock),
                          !.gameEnd = isColumnFilled(updatedGrid) \/ spawnOverlap,
                          !.clearBlocks = s.clearBlocks],
                deletingRows)
        ELSE [s EXCEPT !.activeBlock = newActiveBlock,
                       !.shapePreview = s.randomTetriminoType,
                       !.grid = updatedGrid,
                       !.objCount = s.objCount + Len(newActiveBlock),
                       !.gameEnd = isColumnFilled(updatedGrid) \/ spawnOverlap]

\* handleCollisions dropping the block instead of committing it to the grid
handleCollisionsDiscard(s) ==
    [s EXCEPT !.activeBlock = createBlock(s.shapePreview, TETRIMINO_SIZE),
              !.shapePreview = s.randomTetriminoType]

handleCollisions(s) ==
    LET updatedGrid        == setBlockInArray(s.grid, s.activeBlock)
        newActiveBlock     == spawnCandidate(s)
        spawnOverlap       == spawnOverlaps(updatedGrid, newActiveBlock)
        recentlyPlacedRows == getRecentlyPlacedRows(s.activeBlock)
        deletingRows       == getDeletingRows(updatedGrid, recentlyPlacedRows)
    IN  IF Len(deletingRows) > 0
        THEN handleBlockClear(
                [s EXCEPT !.activeBlock = IF ~spawnOverlap THEN newActiveBlock
                                          ELSE s.activeBlock,
                          !.grid = updatedGrid,
                          !.objCount = s.objCount + Len(newActiveBlock),
                          !.gameEnd = isColumnFilled(updatedGrid) \/ spawnOverlap,
                          !.clearBlocks = s.clearBlocks],
                deletingRows)
        ELSE [s EXCEPT !.activeBlock = IF ~spawnOverlap THEN newActiveBlock
                                       ELSE s.activeBlock,
                       !.shapePreview = s.randomTetriminoType,
                       !.grid = updatedGrid,
                       !.objCount = s.objCount + Len(newActiveBlock),
                       !.gameEnd = isColumnFilled(updatedGrid) \/ spawnOverlap]

\* Tick.apply emptying clearBlocks when the block falls
TickApplyClearing(s) ==
    IF s.gameEnd THEN s
    ELSE IF isCollision(s) THEN handleCollisions(s)
    ELSE [s EXCEPT !.activeBlock = moveBlock(1, s.activeBlock),
                   !.gameEnd = isColumnFilled(s.grid),
                   !.clearBlocks = <<>>]

\* Tick.apply without the gameEnd test in front
TickApplyWhenEnded(s) ==
    IF isCollision(s) THEN handleCollisions(s)
    ELSE [s EXCEPT !.activeBlock = moveBlock(1, s.activeBlock),
                   !.gameEnd = isColumnFilled(s.grid)]

TickApply(s) ==
    IF s.gameEnd THEN s
    ELSE IF isCollision(s) THEN handleCollisions(s)
    ELSE [s EXCEPT !.activeBlock = moveBlock(1, s.activeBlock),
                   !.gameEnd = isColumnFilled(s.grid)]

\* isCollision is computed before gameEnd is looked at; it reads grid[row + 1]
\* for every cube that does not exceed the row boundary
TickThrows(s) ==
    \E i \in 1 .. Len(s.activeBlock) :
        /\ ~checkCubeRowExceedsBoundaries(s.activeBlock[i])
        /\ RowThrows(s.activeBlock[i].grid_row + 1)

(***************************************************************************)
(* state.ts: Move.                                                         *)
(***************************************************************************)
isOutOfBoundaries(grid, direction, cube) ==
    IF direction > 0 THEN cantMoveRight(grid, cube) ELSE cantMoveLeft(grid, cube)

\* updateCubeX leaving the pixel coordinate as it was
updateCubeXColOnly(direction, cube) ==
    [cube EXCEPT !.grid_col = cube.grid_col + direction]

updateCubeX(direction, cube) ==
    [cube EXCEPT !.grid_col = cube.grid_col + direction,
                 !.x = calculateXcoord(cube.grid_col + direction)]

moveBlocked(s, direction) ==
    checkBlockCollision([cube \in Cubes(s.activeBlock) |->
                            isOutOfBoundaries(s.grid, direction, cube)],
                        s.activeBlock)

MoveApply(s, direction) ==
    [s EXCEPT !.activeBlock =
        IF moveBlocked(s, direction) THEN s.activeBlock
        ELSE [i \in 1 .. Len(s.activeBlock) |-> updateCubeX(direction, s.activeBlock[i])]]

\* grid[cube.grid_row] is read for every cube that is not in the edge column
MoveThrows(s, direction) ==
    \E i \in 1 .. Len(s.activeBlock) :
        /\ IF direction > 0 THEN s.activeBlock[i].grid_col < NUM_OF_COLUMNS - 1
           ELSE s.activeBlock[i].grid_col > 0
        /\ RowThrows(s.activeBlock[i].grid_row)

(***************************************************************************)
(* state.ts: Restart.                                                      *)
(***************************************************************************)
\* Restart.apply without the gameEnd test
RestartApplyAlways(s) ==
    LET cells == GridCells(s.grid)
        removingCubes == KeepIdx(cells, {i \in 1 .. Len(cells) : cells[i] # null}, 1)
    IN  [initialState EXCEPT
            !.activeBlock = createBlock(s.randomTetriminoType,
                                        s.objCount + TETRIMINO_SIZE),
            !.shapePreview = s.randomTetriminoType,
            !.highScore = max(s.highScore, s.score),
            !.grid = generate2DArray(NullCell),
            !.objCount = s.objCount + TETRIMINO_SIZE * 3,
            !.gameEnd = FALSE,
            !.clearBlocks = s.clearBlocks \o removingCubes \o s.activeBlock]

\* Restart.apply keeping the active block of initialState (the fixed default)
RestartApplyDefaultBlock(s) ==
    LET cells == GridCells(s.grid)
        removingCubes == KeepIdx(cells, {i \in 1 .. Len(cells) : cells[i] # null}, 1)
    IN  IF s.gameEnd
        THEN [initialState EXCEPT
                !.shapePreview = s.randomTetriminoType,
                !.highScore = max(s.highScore, s.score),
                !.grid = generate2DArray(NullCell),
                !.objCount = s.objCount + TETRIMINO_SIZE * 3,
                !.gameEnd = FALSE,
                !.clearBlocks = s.clearBlocks \o removingCubes \o s.activeBlock]
        ELSE s

RestartApply(s) ==
    LET cells == GridCells(s.grid)
        removingCubes == KeepIdx(cells, {i \in 1 .. Len(cells) : cells[i] # null}, 1)
    IN  IF s.gameEnd
        THEN [initialState EXCEPT
                !.activeBlock = createBlock(s.randomTetriminoType,
                                            s.objCount + TETRIMINO_SIZE),
                !.shapePreview = s.randomTetriminoType,
                !.highScore = max(s.highScore, s.score),
                !.grid = generate2DArray(NullCell),
                !.objCount = s.objCount + TETRIMINO_SIZE * 3,
                !.gameEnd = FALSE,
                !.clearBlocks = s.clearBlocks \o removingCubes \o s.activeBlock]
        ELSE s

(***************************************************************************)
(* state.ts: Rotate.                                                       *)
(***************************************************************************)
\* activeBlock.find(cube => cube.center === true): the index, 0 when there is none
centerIndex(block) ==
    LET hits == {i \in 1 .. Len(block) : block[i].center}
    IN  IF hits = {} THEN 0 ELSE SetMin(hits)

\* rotateCube turning clockwise for either direction
rotateCubeOneWay(direction, centerCube, cube) ==
    LET newRow == centerCube.grid_row - centerCube.grid_col + cube.grid_col
        newCol == centerCube.grid_col + centerCube.grid_row - cube.grid_row
    IN  [cube EXCEPT !.grid_row = newRow,
                     !.grid_col = newCol,
                     !.x = calculateXcoord(newCol),
                     !.y = calculateYcoord(newRow)]

rotateCube(direction, centerCube, cube) ==
    LET newRow == IF direction = "clockwise"
                  THEN centerCube.grid_row - centerCube.grid_col + cube.grid_col
                  ELSE centerCube.grid_row + centerCube.grid_col - cube.grid_col
        newCol == IF direction = "clockwise"
                  THEN centerCube.grid_col + centerCube.grid_row - cube.grid_row
                  ELSE centerCube.grid_col - centerCube.grid_row + cube.grid_row
    IN  [cube EXCEPT !.grid_row = newRow,
                     !.grid_col = newCol,
                     !.x = calculateXcoord(newCol),
                     !.y = calculateYcoord(newRow)]

\* newActiveBlock of Rotate.apply, for a block that has a center cube
rotatedBlock(block, direction) ==
    [i \in 1 .. Len(block) |-> rotateCube(direction, block[centerIndex(block)], block[i])]

\* the three conditions of canRotate on one cube, in the order `some` tries them
rotateCollides(grid, cube) ==
    \/ checkCurrentCell(grid, cube)
    \/ checkCubeRowExceedsBoundaries(cube)
    \/ checkCubeColExceedsBoundaries(cube)

canRotate(grid, block) ==
    ~checkBlockCollision([cube \in Cubes(block) |-> rotateCollides(grid, cube)], block)

\* checkCurrentCell is the first condition tried on every rotated cube, and it
\* indexes grid[newRow] before any boundary is checked
RotateThrows(s, direction) ==
    /\ centerIndex(s.activeBlock) # 0
    /\ \E i \in 1 .. Len(s.activeBlock) :
          RowThrows(rotatedBlock(s.activeBlock, direction)[i].grid_row)

RotateApply(s, direction) ==
    IF centerIndex(s.activeBlock) = 0 THEN s
    ELSE LET newActiveBlock == rotatedBlock(s.activeBlock, direction)
         IN  [s EXCEPT !.activeBlock =
                 IF canRotate(s.grid, newActiveBlock) THEN newActiveBlock
                 ELSE s.activeBlock]

(***************************************************************************)
(* state.ts: Drop.                                                         *)
(***************************************************************************)
canDrop(grid, block) ==
    ~checkBlockCollision([cube \in Cubes(block) |-> collidesBelow(grid, cube)], block)

RECURSIVE DropRunStuck(_, _)
\* Drop.apply recursing on state instead of newState
DropRunStuck(s, n) ==
    LET newState == [s EXCEPT !.activeBlock = moveBlock(1, s.activeBlock)]
    IN  IF n > NUM_OF_ROWS THEN [result |-> s, calls |-> n]
        ELSE IF canDrop(s.grid, newState.activeBlock) THEN DropRunStuck(s, n + 1)
        ELSE [result |-> s, calls |-> n]

RECURSIVE DropRun(_, _)
\* Drop.apply as its n-th call, on s: the state it returns and the number of the
\* call that returns it.  A recursion that has passed NUM_OF_ROWS calls is not
\* followed further.
DropRun(s, n) ==
    LET newState == [s EXCEPT !.activeBlock = moveBlock(1, s.activeBlock)]
    IN  IF n > NUM_OF_ROWS THEN [result |-> s, calls |-> n]
        ELSE IF canDrop(s.grid, newState.activeBlock) THEN DropRun(newState, n + 1)
        ELSE [result |-> s, calls |-> n]

DropApply(s) == DropRun(s, 1).result

\* how many times Drop.apply runs (each run moves the block one row down) for one Drop
DropCalls(s) == DropRun(s, 1).calls

\* canDrop reads grid[row + 1] for every moved cube within the row boundary
DropThrows(s) ==
    \E i \in 1 .. Len(s.activeBlock) :
        /\ ~checkCubeRowExceedsBoundaries(moveCube(1, s.activeBlock[i]))
        /\ RowThrows(s.activeBlock[i].grid_row + 2)

(***************************************************************************)
(* state.ts: reduceState, and the action stream of main.ts.                *)
(***************************************************************************)
\* speedMultiplier taken from the initial speed whatever the level
speedMultiplierInitial(s) == max(INITIAL_SPEED, MAX_SPEED)

speedMultiplier(s) == max(INITIAL_SPEED - s.level * 10, MAX_SPEED)

\* !isTickAction || action.getElapsed() % speedMultiplier === 0
tickPasses(s, elapsed) == elapsed % speedMultiplier(s) = 0

\* action values handed to reduceState: n is the Tick's elapsed, the Move's
\* direction or the GenerateBlock's tetriminoTypeIndex; dir the Rotate's direction
Action(kind, n, dir) == [kind |-> kind, n |-> n, dir |-> dir]

\* elapsed values of interval(TICK_RATE_MS) that the speed gate passes or drops
\* at the levels reached, and indexes inside and outside TETRIMINO_TYPES
TickValues == {0, 90, 100}
GenerateValues == {-1, 0, 1, 7}
Directions == {"clockwise", "anticlockwise"}

TickActions == {Action("Tick", elapsed, "") : elapsed \in TickValues}
GenerateActions == {Action("GenerateBlock", i, "") : i \in GenerateValues}
MoveActions == {Action("Move", direction, "") : direction \in {-1, 1}}
RotateActions == {Action("Rotate", 0, direction) : direction \in Directions}
DropAction == Action("Drop", 0, "")
RestartAction == Action("Restart", 0, "")
NonRestartActions ==
    TickActions \cup GenerateActions \cup MoveActions \cup RotateActions \cup {DropAction}
ActionValues == NonRestartActions \cup {RestartAction}

Throws(s, a) ==
    CASE a.kind = "Tick"   -> tickPasses(s, a.n) /\ TickThrows(s)
      [] a.kind = "Move"   -> MoveThrows(s, a.n)
      [] a.kind = "Rotate" -> RotateThrows(s, a.dir)
      [] a.kind = "Drop"   -> DropThrows(s)
      [] OTHER             -> FALSE

apply(s, a) ==
    CASE a.kind = "GenerateBlock" -> GenerateBlockApply(s, a.n)
      [] a.kind = "Tick"          -> TickApply(s)
      [] a.kind = "Move"          -> MoveApply(s, a.n)
      [] a.kind = "Rotate"        -> RotateApply(s, a.dir)
      [] a.kind = "Drop"          -> DropApply(s)
      [] a.kind = "Restart"       -> RestartApply(s)

reduceState(s, a) ==
    IF a.kind # "Tick" \/ tickPasses(s, a.n) THEN apply(s, a) ELSE s

\* One action arrives and is folded into the accumulator.  An exception raised
\* by apply leaves the accumulator as it was and ends the stream.
Step(a) ==
    /\ ~thrown
    /\ keysOn
    /\ gridHeight' = gridHeight
    /\ keysOn' = keysOn
    /\ IF Throws(state, a)
       THEN thrown' = TRUE /\ state' = state
       ELSE /\ thrown' = FALSE
            /\ state' = reduceState(state, a)
            /\ state'.objCount <= MaxObjCount

GenerateBlock == \E a \in GenerateActions : Step(a)
Tick == \E a \in TickActions : Step(a)
Move == \E a \in MoveActions : Step(a)
Rotate == \E a \in RotateActions : Step(a)
Drop == Step(DropAction)
Restart == Step(RestartAction)

Init ==
    /\ gridHeight = Rows
    /\ state = initialState
    /\ thrown = FALSE
    /\ keysOn = TRUE

Next == GenerateBlock \/ Tick \/ Move \/ Rotate \/ Drop \/ Restart

Spec == Init /\ [][Next]_vars

(***************************************************************************)
(* A game restarted with each of the seven shapes.  Left to the ticks      *)
(* alone, the blocks stack up in the spawn columns until the game ends; a  *)
(* GenerateBlock(i) then stages shape i and Restart spawns it on an empty  *)
(* grid.  From there the same actions are folded as in Spec.               *)
(***************************************************************************)
RECURSIVE TickUntilEnd(_)
\* reduceState folded over Tick(0), Tick(0), ... until the game has ended
TickUntilEnd(s) ==
    IF s.gameEnd THEN s
    ELSE CHOOSE end \in {TickUntilEnd(next) : next \in {TickApply(s)}} : TRUE

EndedGame == TickUntilEnd(initialState)

InitRestarted ==
    /\ gridHeight = Rows
    /\ \E ended \in {EndedGame} : \E i \in 0 .. (Len(TETRIMINO_TYPES) - 1) :
          state = RestartApply(GenerateBlockApply(ended, i))
    /\ thrown = FALSE
    /\ keysOn = TRUE

SpecRestarted == InitRestarted /\ [][Next]_vars

(***************************************************************************)
(* A game played on a board one row higher, up to the spawn of its fifth   *)
(* block: the first three blocks complete the second row from the bottom,  *)
(* the fourth is placed on what is left.  From there the same actions are  *)
(* folded as in Spec.                                                      *)
(***************************************************************************)
RECURSIVE FoldActions(_, _, _)
\* scan(reduceState, s) over actions[i], actions[i + 1], ...: the last accumulator
FoldActions(s, actions, i) ==
    IF i > Len(actions) THEN s
    ELSE CHOOSE last \in {FoldActions(next, actions, i + 1) :
                             next \in {reduceState(s, actions[i])}} : TRUE

\* the keys pressed and the values emitted, in the order they are merged
TallGamePlay ==
    << Action("GenerateBlock", 3, ""), Action("Move", -1, ""), Action("Drop", 0, ""),
       Action("Move", -1, ""), Action("Tick", 0, ""), Action("Tick", 0, ""),
       Action("GenerateBlock", 1, ""), Action("Move", 1, ""),
       Action("Rotate", 0, "anticlockwise"), Action("Move", 1, ""),
       Action("Tick", 0, ""), Action("Tick", 0, ""), Action("Tick", 0, ""),
       Action("Drop", 0, ""), Action("Tick", 0, ""), Action("Tick", 0, ""),
       Action("Move", -1, ""), Action("Move", -1, ""),
       Action("Tick", 0, ""), Action("Tick", 0, ""), Action("Tick", 0, "") >>

InitTall ==
    /\ gridHeight = Rows + 1
    /\ \E start \in {initialState} : state = FoldActions(start, TallGamePlay, 1)
    /\ thrown = FALSE
    /\ keysOn = TRUE

SpecTall == InitTall /\ [][Next]_vars

(***************************************************************************)
(* A game played on a board two rows higher, up to the spawn of its fifth  *)
(* block, an L, with a J in the preview: the same placements as in         *)
(* TallGamePlay, one row further down.  From there the same actions are    *)
(* folded as in Spec.                                                      *)
(***************************************************************************)
\* the keys pressed and the values emitted, in the order they are merged
MergeGamePlay ==
    << Action("GenerateBlock", 3, ""), Action("Move", -1, ""), Action("Drop", 0, ""),
       Action("Move", -1, ""), Action("Tick", 0, ""), Action("Tick", 0, ""),
       Action("GenerateBlock", 1, ""), Action("Move", 1, ""),
       Action("Rotate", 0, "anticlockwise"), Action("Move", 1, ""),
       Action("Tick", 0, ""), Action("Tick", 0, ""), Action("Tick", 0, ""),
       Action("Tick", 0, ""),
       Action("GenerateBlock", 2, ""),
       Action("Drop", 0, ""), Action("Tick", 0, ""), Action("Tick", 0, ""),
       Action("GenerateBlock", 1, ""),
       Action("Move", -1, ""), Action("Move", -1, ""),
       Action("Tick", 0, ""), Action("Tick", 0, ""), Action("Tick", 0, ""),
       Action("Tick", 0, "") >>

InitMerge ==
    /\ gridHeight = Rows + 2
    /\ \E start \in {initialState} : state = FoldActions(start, MergeGamePlay, 1)
    /\ thrown = FALSE
    /\ keysOn = TRUE

SpecMerge == InitMerge /\ [][Next]_vars

(***************************************************************************)
(* The game left unattended.  At any moment of a game of Spec the keyboard *)
(* may fall silent for good; from then on only the two interval streams    *)
(* emit: gameSpeed$ (Tick(elapsed), of which reduceState applies the ones  *)
(* whose elapsed is a multiple of the speed multiplier) and               *)
(* randomTetrominoType$ (GenerateBlock).  interval never completes and     *)
(* elapsed runs through every multiple, so an applied Tick always comes:   *)
(* weak fairness of TickUnattended, WF_vars(TickUnattended), written out   *)
(* as []<>~ENABLED <<A>>_vars \/ []<><<A>>_vars with the enabling condition *)
(* computed from reduceState.  The keys are followed up to                 *)
(* MaxAttendedCount objects; no bound is put on objCount afterwards.       *)
(***************************************************************************)
Attended == \E a \in ActionValues : Step(a) /\ state'.objCount <= MaxAttendedCount

KeysStop ==
    /\ ~thrown
    /\ keysOn
    /\ keysOn' = FALSE
    /\ UNCHANGED <<state, thrown, gridHeight>>

Unattended(a) ==
    /\ ~thrown
    /\ ~keysOn
    /\ UNCHANGED <<gridHeight, keysOn>>
    /\ IF Throws(state, a)
       THEN thrown' = TRUE /\ state' = state
       ELSE thrown' = FALSE /\ state' = reduceState(state, a)

TickUnattended == \E a \in TickActions : tickPasses(state, a.n) /\ Unattended(a)
GenerateUnattended == \E a \in GenerateActions : Unattended(a)

NextUnattended == Attended \/ KeysStop \/ TickUnattended \/ GenerateUnattended

\* ENABLED <<TickUnattended>>_vars: some applied Tick raises or changes the state
TickUnattendedEnabled ==
    /\ ~thrown
    /\ ~keysOn
    /\ \E a \in TickActions :
          tickPasses(state, a.n) /\ (Throws(state, a) \/ reduceState(state, a) # state)

FairTicks == []<>(~TickUnattendedEnabled) \/ []<><<TickUnattended>>_vars

SpecUnattended == Init /\ [][NextUnattended]_vars /\ FairTicks

(***************************************************************************)
(* Properties.  A property of an action is stated of the state that        *)
(* reduceState returns for it from the current (reachable) state.          *)
(***************************************************************************)
ActiveIdx(s) == 1 .. Len(s.activeBlock)

\* some cube of the block of s rests on the floor row or on an occupied cell
restsOnSomething(s) ==
    \E i \in ActiveIdx(s) :
        \/ s.activeBlock[i].grid_row = NUM_OF_ROWS - 1
        \/ /\ s.activeBlock[i].grid_row + 1 \in RowIdx
           /\ s.activeBlock[i].grid_col \in ColIdx
           /\ s.grid[s.activeBlock[i].grid_row + 1][s.activeBlock[i].grid_col] # null

\* the block of s has a cube at (r, c)
blockAt(s, r, c) ==
    \E i \in ActiveIdx(s) : s.activeBlock[i].grid_row = r /\ s.activeBlock[i].grid_col = c

\* row r has every cell occupied in the grid of s
rowFull(s, r) == \A c \in ColIdx : s.grid[r][c] # null

\* row r has every cell occupied once the block of s is committed to the grid
rowFullWithBlock(s, r) == \A c \in ColIdx : s.grid[r][c] # null \/ blockAt(s, r, c)

\* the rows that committing the block of s completes
completedRows(s) == {r \in RowIdx : rowFullWithBlock(s, r) /\ ~rowFull(s, r)}

\* a Tick applied to s locks the block (s is not ended and the block cannot fall)
locksOnTick(s) == ~s.gameEnd /\ restsOnSomething(s)

\* C1: for every reachable state and every action value, apply returns a state
\* and raises no exception.
C1_ApplyNeverThrows == ~thrown /\ \A a \in ActionValues : ~Throws(state, a)

\* C2: in an ended state every action other than Restart returns the state
\* unchanged in every field.
C2_EndedStateFrozen ==
    state.gameEnd =>
        \A a \in NonRestartActions : ~Throws(state, a) => reduceState(state, a) = state

\* C3: in a state that is not ended, where no active cube is on or past the row
\* boundary or has an occupied cell directly below, an applied Tick moves every
\* active cube down by exactly one row, keeps its column, and leaves grid,
\* score, level, objCount, shapePreview and clearBlocks as they were.
C3_TickFalls ==
    (/\ ~state.gameEnd
     /\ \A i \in ActiveIdx(state) :
           /\ ~checkCubeRowExceedsBoundaries(state.activeBlock[i])
           /\ state.grid[state.activeBlock[i].grid_row + 1][state.activeBlock[i].grid_col] = null)
    => \A a \in TickActions :
         tickPasses(state, a.n) =>
           LET t == reduceState(state, a)
           IN  /\ Len(t.activeBlock) = Len(state.activeBlock)
               /\ \A i \in ActiveIdx(state) :
                     /\ t.activeBlock[i].grid_row = state.activeBlock[i].grid_row + 1
                     /\ t.activeBlock[i].grid_col = state.activeBlock[i].grid_col
               /\ t.grid = state.grid
               /\ t.score = state.score
               /\ t.level = state.level
               /\ t.objCount = state.objCount
               /\ t.shapePreview = state.shapePreview
               /\ t.clearBlocks = state.clearBlocks

\* C3 witness: a block that has already fallen, above a stack, can fall again
C3_Witness ==
    /\ ~state.gameEnd
    /\ state.activeBlock[1].grid_row > 0
    /\ \E r \in RowIdx, c \in ColIdx : state.grid[r][c] # null
    /\ ~restsOnSomething(state)
    /\ reduceState(state, Action("Tick", 0, "")) # state

\* C4: every cube of the active block is inside the grid in every reachable
\* state, and a Tick applied when the block cannot move down (a cube in the
\* floor row or above an occupied cell) locks it and spawns, never moves it.
C4_ActiveInsideGrid ==
    /\ \A i \in ActiveIdx(state) :
          /\ state.activeBlock[i].grid_row \in RowIdx
          /\ state.activeBlock[i].grid_col \in ColIdx
    /\ restsOnSomething(state) =>
         \A a \in TickActions :
           tickPasses(state, a.n) =>
             LET t == reduceState(state, a)
             IN  /\ t.activeBlock # moveBlock(1, state.activeBlock)
                 /\ ~state.gameEnd =>
                      /\ t.objCount = state.objCount + TETRIMINO_SIZE
                      /\ t.shapePreview = state.randomTetriminoType
                      /\ \/ t.activeBlock = state.activeBlock
                         \/ t.activeBlock =
                              createBlock(state.shapePreview,
                                          state.objCount + TETRIMINO_SIZE)
                      /\ \A i \in ActiveIdx(state) :
                            \/ \E r \in RowIdx, c \in ColIdx :
                                  /\ t.grid[r][c] # null
                                  /\ t.grid[r][c].id = state.activeBlock[i].id
                            \/ \E j \in 1 .. Len(t.clearBlocks) :
                                  t.clearBlocks[j].id = state.activeBlock[i].id

\* C4 witness: a block moved to the last column and resting on the floor row
C4_Witness ==
    /\ ~state.gameEnd
    /\ \E i \in ActiveIdx(state) :
          /\ state.activeBlock[i].grid_col = NUM_OF_COLUMNS - 1
          /\ state.activeBlock[i].grid_row = NUM_OF_ROWS - 1
    /\ reduceState(state, Action("Tick", 0, "")).objCount > state.objCount

\* C5: a lock that completes k >= 1 rows adds NUM_OF_COLUMNS * k to the score
\* and sets level to floor(newScore / NUM_OF_COLUMNS); a lock that completes no
\* row leaves score and level as they were.
C5_ClearScore ==
    locksOnTick(state) =>
        LET t == reduceState(state, Action("Tick", 0, ""))
            k == Cardinality(completedRows(state))
        IN  /\ t.score = state.score + NUM_OF_COLUMNS * k
            /\ k >= 1 => t.level = t.score \div NUM_OF_COLUMNS
            /\ k = 0 => t.level = state.level

\* C5 witness: a lock that completes two rows at once, after an earlier clear
C5_Witness ==
    /\ locksOnTick(state)
    /\ Cardinality(completedRows(state)) >= 2
    /\ reduceState(state, Action("Tick", 0, "")).score >= 2 * NUM_OF_COLUMNS

\* C6: after Drop some cube of the active block is in the bottom row of the
\* grid or has an occupied cell directly below it.
C6_DropLands == ~DropThrows(state) => restsOnSomething(reduceState(state, DropAction))

\* C7: Drop.apply returns after at most NUM_OF_ROWS runs of its body.
C7_DropTerminates == DropCalls(state) <= NUM_OF_ROWS

\* C7 witness: a Drop that recurses as deep as the grid allows and moves the block
C7_Witness ==
    /\ DropCalls(state) = NUM_OF_ROWS - 1
    /\ reduceState(state, DropAction).activeBlock
         = moveBlock(NUM_OF_ROWS - 2, state.activeBlock)

\* the candidate spawned from the preview overlaps a cell that is occupied once
\* the block of s is committed
candidateOverlaps(s) ==
    \E i \in 1 .. Len(spawnCandidate(s)) :
        LET r == spawnCandidate(s)[i].grid_row
            c == spawnCandidate(s)[i].grid_col
        IN  s.grid[r][c] # null \/ blockAt(s, r, c)

\* C8: on a lock where the block spawned from the preview would overlap an
\* occupied cell of the committed grid, the resulting state is ended and its
\* active block is the block that was just placed.
C8_SpawnOverlapEnds ==
    (locksOnTick(state) /\ candidateOverlaps(state)) =>
        LET t == reduceState(state, Action("Tick", 0, ""))
        IN  t.gameEnd /\ t.activeBlock = state.activeBlock

\* C8 witness: such a lock where nothing reaches row 0, so that only the
\* overlap ends the game
C8_Witness ==
    /\ locksOnTick(state)
    /\ candidateOverlaps(state)
    /\ \A c \in ColIdx : state.grid[0][c] = null /\ ~blockAt(state, 0, c)

\* C9: a step from an ended state leads to an ended state unless it is a
\* Restart, and a Restart leaves gameEnd false.
C9_OnlyRestartLeavesEnd ==
    [][/\ state.gameEnd => (state'.gameEnd \/ state' = reduceState(state, RestartAction))
       /\ ~reduceState(state, RestartAction).gameEnd]_vars

\* C9 witness: a state produced by a Restart (nothing else leaves the score at 0
\* with cubes reported for removal)
C9_Witness ==
    /\ ~state.gameEnd
    /\ state.score = 0
    /\ state.clearBlocks # <<>>
    /\ state.objCount >= 3 * TETRIMINO_SIZE

\* C10: Restart applied to a state that is not ended returns it unchanged.
C10_RestartNoOp == ~state.gameEnd => reduceState(state, RestartAction) = state

\* C10 witness: a running game with placed cubes and a score
C10_Witness ==
    /\ ~state.gameEnd
    /\ state.score > 0
    /\ \E r \in RowIdx, c \in ColIdx : state.grid[r][c] # null
    /\ reduceState(state, RestartAction) = state

\* the cubes held by the grid of s
gridCubes(s) == {s.grid[r][c] : r \in RowIdx, c \in ColIdx} \ {null}

\* the cubes listed in clearBlocks of s
clearedCubes(s) == {s.clearBlocks[i] : i \in 1 .. Len(s.clearBlocks)}

\* the (row, column, center) layout of a block, ids and pixels left aside
placement(block) ==
    [i \in 1 .. Len(block) |-> <<block[i].grid_row, block[i].grid_col, block[i].center>>]

\* C11: Restart applied to an ended state s returns a state that is not ended,
\* with an empty grid, score 0, level 0, highScore = max(s.highScore, s.score),
\* an active block of shape s.randomTetriminoType at the spawn position,
\* shapePreview = s.randomTetriminoType, objCount larger than s.objCount by a
\* positive multiple of TETRIMINO_SIZE, and clearBlocks holding every cube of
\* s.grid and of s.activeBlock.
C11_RestartResets ==
    state.gameEnd =>
        LET t == reduceState(state, RestartAction)
        IN  /\ ~t.gameEnd
            /\ \A r \in RowIdx, c \in ColIdx : t.grid[r][c] = null
            /\ t.score = 0
            /\ t.level = 0
            /\ t.highScore = (IF state.highScore > state.score THEN state.highScore
                              ELSE state.score)
            /\ placement(t.activeBlock) = placement(createBlock(state.randomTetriminoType, 0))
            /\ \A i \in ActiveIdx(t) :
                  /\ t.activeBlock[i].grid_row \in {0, 1}
                  /\ t.activeBlock[i].grid_col \in (COL_MIDPOINT - 1) .. (COL_MIDPOINT + 2)
            /\ t.shapePreview = state.randomTetriminoType
            /\ t.objCount > state.objCount
            /\ (t.objCount - state.objCount) % TETRIMINO_SIZE = 0
            /\ gridCubes(state) \subseteq clearedCubes(t)
            /\ Cubes(state.activeBlock) \subseteq clearedCubes(t)

\* C11 witness: an ended game with a score, a stack, an active block that is not
\* in the grid and a staged shape other than the default one
C11_Witness ==
    /\ state.gameEnd
    /\ state.score > state.highScore
    /\ gridCubes(state) # {}
    /\ ~(Cubes(state.activeBlock) \subseteq gridCubes(state))
    /\ state.randomTetriminoType # TETRIMINO_TYPES[DEFAULT_CHOICE + 1]
    /\ reduceState(state, RestartAction).highScore = state.score

\* the speed of the claim: max(initialSpeed - 10 * level, maxSpeed)
gateSpeed(s) ==
    IF INITIAL_SPEED - 10 * s.level > MAX_SPEED THEN INITIAL_SPEED - 10 * s.level
    ELSE MAX_SPEED

\* the block of s can fall: s is not ended and no cube rests on anything
fallsOnTick(s) == ~s.gameEnd /\ ~restsOnSomething(s)

\* C12: reduceState returns the state unchanged for a Tick(e) with e mod speed
\* # 0, speed = max(INITIAL_SPEED - 10 * level, MAX_SPEED) at the level of the
\* current state; it applies every Tick with e mod speed = 0 and every action
\* that is not a Tick; at level 0 only multiples of 100 advance gravity.
C12_SpeedGate ==
    /\ \A a \in TickActions :
          IF a.n % gateSpeed(state) # 0
          THEN reduceState(state, a) = state
          ELSE /\ reduceState(state, a) = TickApply(state)
               /\ fallsOnTick(state) =>
                     reduceState(state, a).activeBlock = moveBlock(1, state.activeBlock)
    /\ \A a \in ActionValues \ TickActions :
          ~Throws(state, a) => reduceState(state, a) = apply(state, a)
    /\ state.level = 0 =>
          \A a \in TickActions :
             reduceState(state, a) # state => a.n % INITIAL_SPEED = 0

\* C12 witness: at level 1 (speed 90) a falling block is moved by Tick(90) and
\* left alone by Tick(100)
C12_Witness ==
    /\ state.level = 1
    /\ fallsOnTick(state)
    /\ reduceState(state, Action("Tick", 90, "")).activeBlock
         = moveBlock(1, state.activeBlock)
    /\ reduceState(state, Action("Tick", 100, "")) = state

\* C13: level = floor(score / NUM_OF_COLUMNS) in every reachable state and in
\* the state every action returns from it, a Restart and a lock that clears
\* several rows included.
C13_LevelFromScore ==
    /\ state.level = state.score \div NUM_OF_COLUMNS
    /\ \A a \in ActionValues :
          ~Throws(state, a) =>
              reduceState(state, a).level
                = reduceState(state, a).score \div NUM_OF_COLUMNS

\* C13 witness: a lock that completes two rows at once takes the level up by two
C13_Witness ==
    /\ locksOnTick(state)
    /\ Cardinality(completedRows(state)) >= 2
    /\ reduceState(state, Action("Tick", 0, "")).level = state.level + 2

\* C14: every action applied to a state that is not ended returns a state
\* whose score is at least the score of that state.
C14_ScoreMonotone ==
    ~state.gameEnd =>
        \A a \in ActionValues :
            ~Throws(state, a) => reduceState(state, a).score >= state.score

\* C14 witness: a running game that has a score, where the next lock adds to
\* it and a Restart leaves it
C14_Witness ==
    /\ ~state.gameEnd
    /\ state.score > 0
    /\ reduceState(state, Action("Tick", 0, "")).score > state.score
    /\ reduceState(state, RestartAction).score = state.score

\* the spawn counters found in the ids of the cubes of s (grid, active block
\* and clearBlocks)
countersOf(s) ==
    {cube.id[1] : cube \in gridCubes(s) \cup Cubes(s.activeBlock) \cup clearedCubes(s)}

\* the state Tick or Restart returns from s spawns a block: its active block is
\* not the one of s
spawnsFrom(s, t) == t.activeBlock # s.activeBlock /\ t.objCount # s.objCount

\* C15: the counter given to createBlock at a spawn (a lock, a Restart) is
\* larger than the counter of every cube spawned before, and objCount grows at
\* every lock and every Restart; so the cubes of the active block have
\* pairwise different ids, cubes in different grid cells have different ids,
\* and while the game runs no cube of the active block has the id of a cube
\* of the grid or of clearBlocks.
C15_FreshIds ==
    /\ \A n \in countersOf(state) : n <= state.objCount
    /\ \A i, j \in ActiveIdx(state) :
          i # j => state.activeBlock[i].id # state.activeBlock[j].id
    /\ \A r1, r2 \in RowIdx, c1, c2 \in ColIdx :
          (/\ <<r1, c1>> # <<r2, c2>>
           /\ state.grid[r1][c1] # null
           /\ state.grid[r2][c2] # null)
          => state.grid[r1][c1].id # state.grid[r2][c2].id
    /\ ~state.gameEnd =>
          \A i \in ActiveIdx(state) :
             \A cube \in gridCubes(state) \cup clearedCubes(state) :
                cube.id # state.activeBlock[i].id
    /\ \A a \in {Action("Tick", 0, ""), RestartAction} :
          LET t == reduceState(state, a)
          IN  /\ (IF a = RestartAction THEN state.gameEnd ELSE locksOnTick(state))
                    => t.objCount > state.objCount
              /\ spawnsFrom(state, t) =>
                    \A i \in ActiveIdx(t) : \A n \in countersOf(state) :
                       t.activeBlock[i].id[1] > n

\* C15 witness: a lock that spawns a block of the shape and at the cells of
\* an earlier spawn whose cubes are still in the grid
C15_Witness ==
    /\ locksOnTick(state)
    /\ spawnsFrom(state, reduceState(state, Action("Tick", 0, "")))
    /\ \E cube \in gridCubes(state) :
          \E i \in 1 .. Len(spawnCandidate(state)) :
             /\ cube.id[2] = spawnCandidate(state)[i].id[2]
             /\ cube.id[3] = spawnCandidate(state)[i].id[3]
             /\ cube.id[1] < spawnCandidate(state)[i].id[1]

\* the grid of s holds no cube
gridEmpty(s) == \A r \in RowIdx, c \in ColIdx : s.grid[r][c] = null

\* the other direction of rotation
opposite(direction) == IF direction = "clockwise" THEN "anticlockwise" ELSE "clockwise"

\* Rotate(direction) applied to s is accepted: it raises nothing and turns the block
rotateAccepted(s, direction) ==
    /\ ~Throws(s, Action("Rotate", 0, direction))
    /\ reduceState(s, Action("Rotate", 0, direction)).activeBlock # s.activeBlock

\* C16: for an active block with a pivot on an empty grid, when Rotate(d) is
\* accepted and Rotate(opposite d) is accepted after it, the two rotations
\* return every cube to its original grid_row and grid_col (d clockwise or
\* anticlockwise).
C16_RotateRoundTrip ==
    \A d \in Directions :
        (/\ gridEmpty(state)
         /\ \E i \in ActiveIdx(state) : state.activeBlock[i].center
         /\ rotateAccepted(state, d)
         /\ rotateAccepted(reduceState(state, Action("Rotate", 0, d)), opposite(d)))
        => LET back == reduceState(reduceState(state, Action("Rotate", 0, d)),
                                   Action("Rotate", 0, opposite(d)))
           IN  /\ Len(back.activeBlock) = Len(state.activeBlock)
               /\ \A i \in ActiveIdx(state) :
                     /\ back.activeBlock[i].grid_row = state.activeBlock[i].grid_row
                     /\ back.activeBlock[i].grid_col = state.activeBlock[i].grid_col

\* C16 witness: an S block, moved off its spawn cells, that both orders of
\* rotation turn and turn back
C16_Witness ==
    /\ gridEmpty(state)
    /\ state.shapePreview = "S"
    /\ placement(state.activeBlock) # placement(createBlock("S", 0))
    /\ \A d \in Directions :
          /\ rotateAccepted(state, d)
          /\ rotateAccepted(reduceState(state, Action("Rotate", 0, d)), opposite(d))

\* the fields of a state other than randomTetriminoType
exceptRandomType(s) ==
    <<s.gameEnd, s.grid, s.score, s.highScore, s.level, s.activeBlock,
      s.shapePreview, s.clearBlocks, s.objCount>>

\* C17: GenerateBlock(i) sets randomTetriminoType to entry i (counted from 0)
\* of the seven shapes for 0 <= i < 7 and to the entry at DEFAULT_CHOICE = 3
\* for every other i, and leaves every other field as it was.
C17_GenerateBlock ==
    /\ Len(TETRIMINO_TYPES) = 7
    /\ \A i \in -2 .. 9 :
          LET t == reduceState(state, Action("GenerateBlock", i, ""))
          IN  /\ t.randomTetriminoType =
                    (IF 0 <= i /\ i < 7 THEN TETRIMINO_TYPES[i + 1] ELSE TETRIMINO_TYPES[4])
              /\ exceptRandomType(t) = exceptRandomType(state)
              /\ DOMAIN t = DOMAIN state

\* C17 witness: a game with a stack and a score whose staged shape an
\* out-of-range index replaces by the default one
C17_Witness ==
    /\ state.score > 0
    /\ gridCubes(state) # {}
    /\ state.randomTetriminoType # TETRIMINO_TYPES[DEFAULT_CHOICE + 1]
    /\ reduceState(state, Action("GenerateBlock", 7, "")).randomTetriminoType
         = TETRIMINO_TYPES[DEFAULT_CHOICE + 1]
    /\ reduceState(state, Action("GenerateBlock", 0, "")).randomTetriminoType = "I"

\* the ids of a set of cubes
idsOf(cubes) == {cube.id : cube \in cubes}

\* action a applied to s takes no cube out of the grid: it is not a Tick that
\* locks a block completing a row, and not a Restart of an ended game
removesNoCube(s, a) ==
    /\ (a.kind = "Tick" /\ tickPasses(s, a.n) /\ locksOnTick(s))
          => completedRows(s) = {}
    /\ a.kind = "Restart" => ~s.gameEnd

\* C18: the state returned by a transition that removes no cube (Move, Rotate,
\* Drop, GenerateBlock, a gated or non-locking Tick, a lock that completes no
\* row) has an empty clearBlocks.
C18_ClearBlocksRefilled ==
    \A a \in ActionValues :
        (~Throws(state, a) /\ removesNoCube(state, a))
        => reduceState(state, a).clearBlocks = <<>>

\* C19: every cube held by the grid before a transition and held by neither
\* the grid nor the active block after it is listed in clearBlocks of the
\* resulting state.
C19_RemovedCubesReported ==
    \A a \in ActionValues :
        ~Throws(state, a) =>
            LET t == reduceState(state, a)
            IN  \A cube \in gridCubes(state) :
                    \/ cube.id \in idsOf(gridCubes(t))
                    \/ cube.id \in idsOf(Cubes(t.activeBlock))
                    \/ cube.id \in idsOf(clearedCubes(t))

\* C20: in every reachable state every cube of the active block and of the
\* grid has x = floor(grid_col / NUM_OF_COLUMNS * CANVAS_WIDTH) and
\* y = floor(grid_row / NUM_OF_ROWS * CANVAS_HEIGHT).
C20_PixelsFollowGrid ==
    \A cube \in Cubes(state.activeBlock) \cup gridCubes(state) :
        /\ cube.x = (cube.grid_col * CANVAS_WIDTH) \div NUM_OF_COLUMNS
        /\ cube.y = (cube.grid_row * CANVAS_HEIGHT) \div NUM_OF_ROWS

\* C20 witness: a top cube of the first block shifted into the bottom row by a
\* line clear, under an active block that has been rotated, moved and lowered
C20_Witness ==
    /\ \E cube \in gridCubes(state) :
          /\ cube.id[1] = TETRIMINO_SIZE
          /\ cube.id[2] = 0
          /\ cube.grid_row = NUM_OF_ROWS - 1
    /\ \E i \in ActiveIdx(state) :
          /\ state.activeBlock[i].grid_row # state.activeBlock[i].id[2]
          /\ state.activeBlock[i].grid_col # state.activeBlock[i].id[3]
    /\ \E i, j \in ActiveIdx(state) :
          /\ state.activeBlock[i].id[2] = state.activeBlock[j].id[2]
          /\ state.activeBlock[i].grid_row # state.activeBlock[j].grid_row

\* C21: in every reachable state the grid has NUM_OF_ROWS rows of
\* NUM_OF_COLUMNS cells, every occupied cell (r, c) holds a cube whose
\* grid_row is r and whose grid_col is c, and no cube is held by two cells.
C21_GridShape ==
    /\ DOMAIN state.grid = RowIdx
    /\ \A r \in RowIdx : DOMAIN state.grid[r] = ColIdx
    /\ \A r \in RowIdx, c \in ColIdx :
          state.grid[r][c] # null =>
              /\ state.grid[r][c].grid_row = r
              /\ state.grid[r][c].grid_col = c
    /\ \A r1, r2 \in RowIdx, c1, c2 \in ColIdx :
          (state.grid[r1][c1] # null /\ state.grid[r1][c1] = state.grid[r2][c2])
              => (r1 = r2 /\ c1 = c2)

\* C21 witness: a grid holding a cube that a line clear has shifted down from
\* the cell it was committed to, next to a cube of a later block
C21_Witness ==
    /\ state.score > 0
    /\ \E cube \in gridCubes(state) :
          /\ cube.id[1] = TETRIMINO_SIZE
          /\ cube.id[2] = 0
          /\ cube.grid_row = NUM_OF_ROWS - 1
    /\ \E cube \in gridCubes(state) : cube.grid_row # cube.id[2] /\ cube.id[1] > TETRIMINO_SIZE

\* the grid of s with the block of s committed to it
committedGrid(s) == setBlockInArray(s.grid, s.activeBlock)

\* the rows that the lock of the block of s deletes
deletedRows(s) ==
    LET rows == getDeletingRows(committedGrid(s), getRecentlyPlacedRows(s.activeBlock))
    IN  {rows[i] : i \in 1 .. Len(rows)}

\* the number of occupied cells of a grid
cubeCount(grid) == Cardinality({<<r, c>> \in RowIdx \X ColIdx : grid[r][c] # null})

\* C22: after a lock that deletes the rows D, every cube of the committed grid
\* whose row is not in D is in the new grid: |D| rows lower when its row is
\* above the least row of D, in its own cell otherwise; the new grid holds
\* NUM_OF_COLUMNS * |D| fewer cubes than the committed grid.
C22_ClearKeepsSurvivors ==
    (locksOnTick(state) /\ ~TickThrows(state) /\ deletedRows(state) # {}) =>
        LET t         == reduceState(state, Action("Tick", 0, ""))
            committed == committedGrid(state)
            D         == deletedRows(state)
        IN  /\ \A r \in RowIdx \ D, c \in ColIdx :
                  committed[r][c] # null =>
                      LET to == IF r < SetMin(D) THEN r + Cardinality(D) ELSE r
                      IN  /\ to \in RowIdx
                          /\ t.grid[to][c] # null
                          /\ t.grid[to][c].id = committed[r][c].id
            /\ cubeCount(t.grid) = cubeCount(committed) - NUM_OF_COLUMNS * Cardinality(D)

\* C23: at every lock without spawn overlap, with or without a line clear,
\* the new active block is the block of the shape that shapePreview held
\* before the lock, and the new shapePreview is the randomTetriminoType held
\* before the lock.
C23_PreviewPipeline ==
    (locksOnTick(state) /\ ~TickThrows(state) /\ ~candidateOverlaps(state)) =>
        LET t == reduceState(state, Action("Tick", 0, ""))
        IN  /\ t.activeBlock = createBlock(state.shapePreview,
                                           TETRIMINO_SIZE + state.objCount)
            /\ \A type \in {TETRIMINO_TYPES[i] : i \in 1 .. Len(TETRIMINO_TYPES)} :
                  placement(t.activeBlock) = placement(createBlock(type, 0))
                      <=> type = state.shapePreview
            /\ t.shapePreview = state.randomTetriminoType
            /\ t.randomTetriminoType = state.randomTetriminoType

\* C23 witness: a lock that clears a row, with a staged type that differs
\* from the preview and a preview that is not the one the game starts with
C23_Witness ==
    /\ locksOnTick(state)
    /\ ~candidateOverlaps(state)
    /\ completedRows(state) # {}
    /\ state.shapePreview # state.randomTetriminoType
    /\ state.shapePreview # initialState.shapePreview

\* some cube of the block of s is in the edge column on the side of d, or has
\* an occupied cell of the grid next to it on that side
sideBlocked(s, d) ==
    \E i \in ActiveIdx(s) :
        \/ s.activeBlock[i].grid_col = (IF d > 0 THEN NUM_OF_COLUMNS - 1 ELSE 0)
        \/ s.grid[s.activeBlock[i].grid_row][s.activeBlock[i].grid_col + d] # null

\* C24: Move(d) for d = -1 or 1 returns the state unchanged when a cube of the
\* active block is in the edge column on the side of d or next to an occupied
\* cell on that side; otherwise every cube has its grid_col changed by d and
\* its grid_row unchanged. Either way nothing but the active block changes.
C24_MoveShifts ==
    \A d \in {-1, 1} :
        ~MoveThrows(state, d) =>
            LET t == reduceState(state, Action("Move", d, ""))
            IN  /\ sideBlocked(state, d) => t = state
                /\ ~sideBlocked(state, d) =>
                      /\ Len(t.activeBlock) = Len(state.activeBlock)
                      /\ \A i \in ActiveIdx(state) :
                            /\ t.activeBlock[i].grid_col = state.activeBlock[i].grid_col + d
                            /\ t.activeBlock[i].grid_row = state.activeBlock[i].grid_row
                /\ [t EXCEPT !.activeBlock = state.activeBlock] = state

\* C24 witness: a block away from both edges that an occupied cell stops on
\* the left and nothing stops on the right
C24_Witness ==
    /\ ~state.gameEnd
    /\ \A i \in ActiveIdx(state) :
          state.activeBlock[i].grid_col \in 1 .. (NUM_OF_COLUMNS - 2)
    /\ sideBlocked(state, -1)
    /\ ~sideBlocked(state, 1)
    /\ reduceState(state, Action("Move", -1, "")) = state
    /\ reduceState(state, Action("Move", 1, "")) # state

\* the image of cube under the quarter turn about pivot, as <<row, column>>
quarterTurn(direction, pivot, cube) ==
    IF direction = "clockwise"
    THEN <<pivot.grid_row - pivot.grid_col + cube.grid_col,
           pivot.grid_col + pivot.grid_row - cube.grid_row>>
    ELSE <<pivot.grid_row + pivot.grid_col - cube.grid_col,
           pivot.grid_col - pivot.grid_row + cube.grid_row>>

\* the position <<row, column>> is an occupied cell of the grid of s
occupied(s, pos) ==
    pos[1] \in RowIdx /\ pos[2] \in ColIdx /\ s.grid[pos[1]][pos[2]] # null

\* the block of s has no center cube, or some cube's image under the quarter
\* turn is an occupied cell or has a row < 0 or >= NUM_OF_ROWS - 1
turnRefused(s, direction) ==
    \/ \A i \in ActiveIdx(s) : ~s.activeBlock[i].center
    \/ \E i \in ActiveIdx(s) :
          LET pivot == s.activeBlock[CHOOSE j \in ActiveIdx(s) : s.activeBlock[j].center]
              image == quarterTurn(direction, pivot, s.activeBlock[i])
          IN  occupied(s, image) \/ image[1] < 0 \/ image[1] >= NUM_OF_ROWS - 1

\* C25: Rotate returns a state; it leaves the active block unchanged when the
\* block has no center cube or when a rotated cube would lie on an occupied
\* cell or at a row < 0 or >= NUM_OF_ROWS - 1; otherwise every cube is at its
\* quarter-turn image about the center cube and on no occupied cell.
C25_RotateRejectsOrTurns ==
    \A direction \in Directions :
        /\ ~Throws(state, Action("Rotate", 0, direction))
        /\ LET t == reduceState(state, Action("Rotate", 0, direction))
           IN  IF turnRefused(state, direction)
               THEN t.activeBlock = state.activeBlock
               ELSE LET pivot == state.activeBlock[centerIndex(state.activeBlock)]
                    IN  \A i \in ActiveIdx(state) :
                           /\ <<t.activeBlock[i].grid_row, t.activeBlock[i].grid_col>>
                                = quarterTurn(direction, pivot, state.activeBlock[i])
                           /\ ~occupied(t, <<t.activeBlock[i].grid_row,
                                             t.activeBlock[i].grid_col>>)

\* the images <<row, column>> of the cubes of the block of s under the
\* quarter turn about its center cube (the block has one)
turnImages(s, direction) ==
    {quarterTurn(direction, s.activeBlock[centerIndex(s.activeBlock)], s.activeBlock[i]) :
        i \in ActiveIdx(s)}

\* Rotate applies to the block of s: it has a center cube and no image row is
\* outside the grid
turnApplies(s, direction) ==
    centerIndex(s.activeBlock) # 0 /\ ~RotateThrows(s, direction)

\* C26 as stated: a cube exceeds the column boundary when its column is < 0
\* or >= NUM_OF_COLUMNS - 1, and Rotate keeps the original block for every
\* rotation that would place a cube in the last column NUM_OF_COLUMNS - 1.
C26_LastColumnRefused ==
    \A direction \in Directions :
        turnApplies(state, direction) =>
            /\ \A i \in ActiveIdx(state) :
                  LET cube == rotatedBlock(state.activeBlock, direction)[i]
                  IN  checkCubeColExceedsBoundaries(cube)
                          <=> (cube.grid_col < 0 \/ cube.grid_col >= NUM_OF_COLUMNS - 1)
            /\ (\E image \in turnImages(state, direction) : image[2] = NUM_OF_COLUMNS - 1)
                  => reduceState(state, Action("Rotate", 0, direction)).activeBlock
                         = state.activeBlock

\* C26 amended: a cube exceeds the column boundary when its column is < 0 or
\* > NUM_OF_COLUMNS - 1, that is outside the grid; Rotate keeps the original
\* block for every rotation that would place a cube outside the columns, and
\* commits a rotation whose cubes all lie on empty cells of rows
\* 0 .. NUM_OF_ROWS - 2, the last column included.
C26_ColumnBoundary ==
    \A direction \in Directions :
        turnApplies(state, direction) =>
            LET t == reduceState(state, Action("Rotate", 0, direction))
            IN  /\ \A i \in ActiveIdx(state) :
                      LET cube == rotatedBlock(state.activeBlock, direction)[i]
                      IN  checkCubeColExceedsBoundaries(cube)
                              <=> (cube.grid_col < 0 \/ cube.grid_col > NUM_OF_COLUMNS - 1)
                /\ (\E image \in turnImages(state, direction) : image[2] \notin ColIdx)
                      => t.activeBlock = state.activeBlock
                /\ (\A image \in turnImages(state, direction) :
                       /\ image[1] \in 0 .. (NUM_OF_ROWS - 2)
                       /\ image[2] \in ColIdx
                       /\ ~occupied(state, image))
                      => placement(t.activeBlock)
                            = placement(rotatedBlock(state.activeBlock, direction))

\* C26 witness: a rotation that places a cube in the last column, in a state
\* where no cube of the block is there yet, and is committed
C26_Witness ==
    \E direction \in Directions :
        /\ turnApplies(state, direction)
        /\ \A i \in ActiveIdx(state) : state.activeBlock[i].grid_col < NUM_OF_COLUMNS - 1
        /\ \E image \in turnImages(state, direction) : image[2] = NUM_OF_COLUMNS - 1
        /\ \E i \in ActiveIdx(state) :
              reduceState(state, Action("Rotate", 0, direction)).activeBlock[i].grid_col
                  = NUM_OF_COLUMNS - 1

\* C27: in every reachable state that is not ended, no cube of the active
\* block is on a cell of the grid that holds a placed cube.
C27_ActiveOverlapsNothing ==
    ~state.gameEnd =>
        \A i \in ActiveIdx(state) :
            ~occupied(state, <<state.activeBlock[i].grid_row, state.activeBlock[i].grid_col>>)

\* C28: no reachable state, and no state returned for an action applied to
\* one, has a row of the grid with every cell occupied.
C28_NoFullRow ==
    /\ \A r \in RowIdx : ~rowFull(state, r)
    /\ \A a \in ActionValues :
          ~Throws(state, a) => \A r \in RowIdx : ~rowFull(reduceState(state, a), r)

\* every action applied to s returns a highScore that is not below the one of
\* s, changes it only as Restart of an ended s, and then to at least s.score
highScoreKept(s) ==
    \A a \in ActionValues :
        ~Throws(s, a) =>
            LET t == reduceState(s, a)
            IN  /\ t.highScore >= s.highScore
                /\ t.highScore # s.highScore => (a = RestartAction /\ s.gameEnd)
                /\ (a = RestartAction /\ s.gameEnd) => t.highScore >= s.score

\* the ended state of the game that follows a Restart of the ended state s
\* when only Ticks are applied to it
nextGameEnd(s) == CHOOSE end \in {TickUntilEnd(next) : next \in {RestartApply(s)}} : TRUE

\* C30: highScore never decreases: it changes only when Restart is applied to
\* an ended state, and is then at least the score of the game that ended; no
\* other action changes it. Stated of every reachable state and, for an ended
\* one, of the end of the game that follows its Restart.
C30_HighScoreMonotone ==
    /\ highScoreKept(state)
    /\ state.gameEnd => \E end \in {nextGameEnd(state)} : highScoreKept(end)

\* C30 witness: a game ended with a positive score, followed by a game that
\* ends with a lower score than the high score carried into it
C30_Witness ==
    /\ state.gameEnd
    /\ state.score > 0
    /\ \E end \in {nextGameEnd(state)} :
          /\ end.gameEnd
          /\ end.highScore = state.score
          /\ end.score < end.highScore
          /\ reduceState(end, RestartAction).highScore = state.score

\* C29: from every reachable state that is not ended, once only applied Ticks
\* and GenerateBlocks are folded and applied Ticks keep coming, an ended
\* state is reached.
C29_UnattendedGameEnds == (~keysOn /\ ~thrown /\ ~state.gameEnd) ~> state.gameEnd

\* C29 witness: an unattended game that has ended after a line clear and
\* after at least two blocks were locked with the keyboard silent
C29_Witness ==
    /\ ~keysOn
    /\ ~thrown
    /\ state.gameEnd
    /\ state.score > 0
    /\ state.objCount >= MaxAttendedCount + 2 * TETRIMINO_SIZE

====
